---- MODULE Spec2Model ----
(***************************************************************************)
(* The login view of the service_info front-end (views/login.js): the      *)
(* module-load menu toggle, the "click button" handler that posts the      *)
(* credentials with $.ajax, and the success and error callbacks of that    *)
(* request.                                                                *)
(*                                                                         *)
(* JavaScript values are modelled as strings.  Undefined stands for the    *)
(* value undefined (a missing property), Null for null, Builtin for a      *)
(* native function object such as Object.prototype.hasOwnProperty.         *)
(* Response bodies are JSON objects: a success body may or may not carry a *)
(* token, an error body is a field-error map or is missing altogether      *)
(* (network failure).  Object.prototype may carry enumerable properties    *)
(* added by other scripts of the page; an error body inherits them.        *)
(* The credentials read from the form travel with the request and are not  *)
(* read again by the callbacks, so the requests are kept by status only.   *)
(***************************************************************************)
EXTENDS Naturals, Sequences, FiniteSets, TLC

VARIABLES
    config,       \* the Configuration Store: key -> value
    visible,      \* menu item selector -> shown (TRUE) or hidden (FALSE)
    hash,         \* window.location.hash
    text,         \* error slot selector -> displayed text
    reqs,         \* the login requests sent so far, by status, in send order
    clicks,       \* number of "click button" events handled
    overlapped,   \* two requests have been in flight at once
    loaded,       \* the DOM-ready callback has run
    last,         \* the last handler that ran, with its argument
    threw,        \* the last handler ended by throwing
    lastSuccess   \* the last success callback: its token, and loaded when it ran

vars == <<config, visible, hash, text, reqs, clicks, overlapped, loaded, last, threw,
         lastSuccess>>

(***************************************************************************)
(* Bounds of the model.                                                    *)
(***************************************************************************)
MaxRequests == 2
MaxCalls == 2

(***************************************************************************)
(* JavaScript values.                                                      *)
(***************************************************************************)
Undefined == "<undefined>"
Null == "<null>"
Builtin == "<native function>"

AuthKey == "forever.authToken"
Tokens == {"abc123", "tok2"}
TokenValues == Tokens \cup {"", Undefined}
StoreValues == TokenValues \cup {Null}

\* ToBoolean on the values above: undefined, null and "" are falsy.
Truthy(v) == v \notin {Undefined, Null, ""}

\* typeof v == "function"
Callable(v) == v = Builtin

(***************************************************************************)
(* The Configuration Store.                                                *)
(***************************************************************************)
ConfigGet(cfg, k) == IF k \in DOMAIN cfg THEN cfg[k] ELSE Undefined

ConfigSet(cfg, k, v) == [x \in DOMAIN cfg \cup {k} |-> IF x = k THEN v ELSE cfg[x]]

(***************************************************************************)
(* The page: the two menu items, the navigation hash, the error slots of   *)
(* the rendered template.                                                  *)
(***************************************************************************)
LoginItem == ".menu-item-login"
LogoutItem == ".menu-item-logout"
MenuItems == {LoginItem, LogoutItem}

Hashes == {"", "about", "login", "service"}

NonFieldSlot == ".non-field-errors"
Slots == {".error-email", ".error-password", NonFieldSlot}

\* The elements matched by $('.error'): every error slot of the template.
ErrorClass == Slots

JqShow(vis, sel) == [s \in DOMAIN vis |-> IF s = sel THEN TRUE ELSE vis[s]]

JqHide(vis, sel) == [s \in DOMAIN vis |-> IF s = sel THEN FALSE ELSE vis[s]]

\* $(sel).text(v): sets the text of the matched elements, of none if none match.
JqText(txt, sels, v) == [s \in DOMAIN txt |-> IF s \in sels THEN v ELSE txt[s]]

(***************************************************************************)
(* toggleLoginMenuItem, on the page state st = [config, visible, hash].    *)
(* Two variants with a slip come first: one shows the right item and       *)
(* forgets to hide the other, one flips both items with jQuery's toggle(). *)
(***************************************************************************)
toggle_ShowOnly(st) ==
    IF Truthy(ConfigGet(st.config, AuthKey))
    THEN [st EXCEPT !.visible = JqShow(st.visible, LogoutItem)]
    ELSE [st EXCEPT !.visible = JqShow(st.visible, LoginItem),
                    !.hash = "login"]

toggle_Flip(st) ==
    [st EXCEPT !.visible = [s \in DOMAIN st.visible |-> ~st.visible[s]],
               !.hash = IF Truthy(ConfigGet(st.config, AuthKey)) THEN st.hash ELSE "login"]

toggleLoginMenuItem(st) ==
    IF Truthy(ConfigGet(st.config, AuthKey))
    THEN [st EXCEPT !.visible = JqShow(JqHide(st.visible, LoginItem), LogoutItem)]
    ELSE [st EXCEPT !.visible = JqHide(JqShow(st.visible, LoginItem), LogoutItem),
                    !.hash = "login"]

(***************************************************************************)
(* Response bodies.                                                        *)
(***************************************************************************)
\* The keys of an error body: a form field, the form-level key, and a key
\* that is also the name of a method of Object.prototype.
FieldKeys == {"email", "non_field_errors", "hasOwnProperty"}

\* The message the server sends for a key, and the value a polluted
\* Object.prototype gives it.
Message(k) ==
    CASE k = "email" -> "Invalid email"
      [] k = "non_field_errors" -> "Bad login"
      [] OTHER -> "x"

Polluted == "polluted"

\* Key sequences without repetition: the own properties of a body in
\* insertion order, which is the order for-in visits them.
KeySeqs ==
    {q \in UNION {[1..m -> FieldKeys] : m \in 0..Cardinality(FieldKeys)} :
        \A i, j \in DOMAIN q : i # j => q[i] # q[j]}

\* The enumerable properties an error body inherits from Object.prototype.
InheritedSets == {{}, {"non_field_errors"}, {"email"}}

\* e.responseJSON: undefined on a network failure, else an object.
NoBody == [defined |-> FALSE, own |-> <<>>, inherited |-> {}]

ErrorBodies ==
    {NoBody} \cup
    {[defined |-> TRUE, own |-> q, inherited |-> h] :
        q \in KeySeqs, h \in InheritedSets}

\* A success body {token: v}; v = Undefined when the body has no token.
SuccessBodies == {[token |-> v] : v \in TokenValues}

OwnKeys(b) == {b.own[i] : i \in DOMAIN b.own}

\* b.hasOwnProperty(k), when b.hasOwnProperty is the native function
HasOwnProperty(b, k) == k \in OwnKeys(b)

\* b[k]: the own property, else the inherited one
GetProperty(b, k) ==
    IF k \in OwnKeys(b) THEN Message(k)
    ELSE IF k \in b.inherited THEN Polluted
    ELSE IF k = "hasOwnProperty" THEN Builtin
    ELSE Undefined

RECURSIVE SetToSeq(_)
SetToSeq(S) ==
    IF S = {} THEN <<>>
    ELSE LET k == CHOOSE x \in S : TRUE IN <<k>> \o SetToSeq(S \ {k})

\* for (var k in b): own keys first, then the inherited keys they do not
\* shadow; no iteration at all over undefined.
ForIn(b) ==
    IF b.defined THEN b.own \o SetToSeq(b.inherited \ OwnKeys(b)) ELSE <<>>

(***************************************************************************)
(* The error callback: clear $('.error'), then the for-in loop.  The       *)
(* result is the text of the slots and whether the loop threw (calling     *)
(* b.hasOwnProperty when the body's own property shadows the native one    *)
(* is a TypeError, which ends the callback).                               *)
(***************************************************************************)
RECURSIVE RenderLoop(_, _, _)
RenderLoop(b, ks, txt) ==
    IF ks = <<>> THEN [text |-> txt, threw |-> FALSE]
    ELSE LET k == Head(ks) IN
         IF k = "non_field_errors"
         THEN RenderLoop(b, Tail(ks), JqText(txt, {NonFieldSlot}, GetProperty(b, k)))
         ELSE IF ~Callable(GetProperty(b, "hasOwnProperty"))
         THEN [text |-> txt, threw |-> TRUE]
         ELSE IF HasOwnProperty(b, k)
         THEN RenderLoop(b, Tail(ks), JqText(txt, {".error-" \o k}, GetProperty(b, k)))
         ELSE RenderLoop(b, Tail(ks), txt)

error(b, txt) == RenderLoop(b, ForIn(b), JqText(txt, ErrorClass, ""))

(***************************************************************************)
(* The success callback, on the page state st = [config, visible, hash].   *)
(* Variants with a slip come first: the toggle left out, the toggle called *)
(* before the token is stored, the token read from the wrong property, a   *)
(* stored token not overwritten.                                           *)
(***************************************************************************)
success_NoToggle(data, st) ==
    [st EXCEPT !.config = ConfigSet(st.config, AuthKey, data.token),
               !.hash = "service"]

success_ToggleFirst(data, st) ==
    [toggleLoginMenuItem(st) EXCEPT
        !.config = ConfigSet(st.config, AuthKey, data.token),
        !.hash = "service"]

success_WrongProperty(data, st) ==
    LET stored == [st EXCEPT !.config = ConfigSet(st.config, AuthKey, Undefined)]
    IN  [toggleLoginMenuItem(stored) EXCEPT !.hash = "service"]

success_KeepFirst(data, st) ==
    LET kept == IF Truthy(ConfigGet(st.config, AuthKey))
                THEN ConfigGet(st.config, AuthKey)
                ELSE data.token
        stored == [st EXCEPT !.config = ConfigSet(st.config, AuthKey, kept)]
    IN  [toggleLoginMenuItem(stored) EXCEPT !.hash = "service"]

success(data, st) ==
    LET stored == [st EXCEPT !.config = ConfigSet(st.config, AuthKey, data.token)]
    IN  [toggleLoginMenuItem(stored) EXCEPT !.hash = "service"]

\* A click handler that sends nothing while a request is in flight.
click_button_Guarded(rs) ==
    IF \E i \in DOMAIN rs : rs[i] = "inflight" THEN rs ELSE Append(rs, "inflight")

\* The click handler: $.ajax sends one more request.
click_button(rs) == Append(rs, "inflight")

(***************************************************************************)
(* The state machine.                                                      *)
(***************************************************************************)
Page == [config |-> config, visible |-> visible, hash |-> hash]

SetPage(st) ==
    /\ config' = st.config
    /\ visible' = st.visible
    /\ hash' = st.hash

NoArg == [token |-> Undefined, body |-> NoBody]

\* n counts the calls when the handler is called several times in a row.
Ran(op, n) == [op |-> op, n |-> n] @@ NoArg

NeverSucceeded == [fired |-> FALSE, token |-> Undefined, loaded |-> FALSE]

\* The page as the browser hands it over: the store holds no token or the
\* token of an earlier session, each menu item is shown or hidden as the page
\* markup has it, the address bar is on some other view, and the rendered
\* template shows no error.
Init ==
    /\ config \in [{AuthKey} -> {Undefined, "abc123"}]
    /\ visible \in [MenuItems -> BOOLEAN]
    /\ hash = "about"
    /\ text = [s \in Slots |-> ""]
    /\ reqs = <<>>
    /\ clicks = 0
    /\ overlapped = FALSE
    /\ loaded = FALSE
    /\ last = Ran("none", 0)
    /\ threw = FALSE
    /\ lastSuccess = NeverSucceeded

\* $(function() { toggleLoginMenuItem(); })
Load ==
    /\ ~loaded
    /\ loaded' = TRUE
    /\ SetPage(toggleLoginMenuItem(Page))
    /\ last' = Ran("load", 0)
    /\ threw' = FALSE
    /\ UNCHANGED <<text, reqs, clicks, overlapped, lastSuccess>>

\* "click button"
Submit ==
    /\ clicks < MaxRequests
    /\ clicks' = clicks + 1
    /\ reqs' = click_button(reqs)
    /\ overlapped' = (overlapped \/ \E i \in DOMAIN reqs : reqs[i] = "inflight")
    /\ last' = Ran("submit", 0)
    /\ threw' = FALSE
    /\ UNCHANGED <<config, visible, hash, text, loaded, lastSuccess>>

SuccessCallback(i) ==
    /\ i \in DOMAIN reqs
    /\ reqs[i] = "inflight"
    /\ reqs' = [reqs EXCEPT ![i] = "success"]
    /\ \E data \in SuccessBodies :
          /\ last' = [Ran("success", 0) EXCEPT !.token = data.token]
          /\ SetPage(success(data, Page))
          /\ threw' = FALSE
          /\ lastSuccess' = [fired |-> TRUE, token |-> data.token, loaded |-> loaded]
    /\ UNCHANGED <<text, clicks, overlapped, loaded>>

ErrorCallback(i) ==
    /\ i \in DOMAIN reqs
    /\ reqs[i] = "inflight"
    /\ reqs' = [reqs EXCEPT ![i] = "error"]
    /\ \E b \in ErrorBodies :
          /\ last' = [Ran("error", 0) EXCEPT !.body = b]
          /\ LET r == error(b, text)
             IN  text' = r.text /\ threw' = r.threw
    /\ UNCHANGED <<config, visible, hash, clicks, overlapped, loaded, lastSuccess>>

Callback(i) == SuccessCallback(i) \/ ErrorCallback(i)

Next ==
    \/ Load
    \/ Submit
    \/ \E i \in 1..MaxRequests : SuccessCallback(i)
    \/ \E i \in 1..MaxRequests : ErrorCallback(i)

Spec == Init /\ [][Next]_vars

\* Request i gets its callback: what a step of Callback(i) does to reqs.
Respond(i) ==
    /\ i \in DOMAIN reqs
    /\ reqs[i] = "inflight"
    /\ \E r \in {"success", "error"} : reqs' = [reqs EXCEPT ![i] = r]

\* Every request sent gets a response or fails at the network level, so
\* $.ajax runs one of its two callbacks.  The steps of Next that change
\* reqs as Respond(i) does are the steps of Callback(i), and both are
\* enabled exactly while request i is in flight.
FairSpec == Spec /\ \A i \in 1..MaxRequests : WF_reqs(Respond(i))

(***************************************************************************)
(* toggleLoginMenuItem on its own: called up to MaxCalls times in a row    *)
(* on an arbitrary page, the store left alone between the calls.           *)
(***************************************************************************)
ToggleInit ==
    /\ config \in [{AuthKey} -> StoreValues]
    /\ visible \in [MenuItems -> BOOLEAN]
    /\ hash \in Hashes
    /\ text = [s \in Slots |-> ""]
    /\ reqs = <<>>
    /\ clicks = 0
    /\ overlapped = FALSE
    /\ loaded \in BOOLEAN
    /\ last = Ran("none", 0)
    /\ threw = FALSE
    /\ lastSuccess = NeverSucceeded

ToggleCall ==
    /\ last.op \in {"none", "toggle"}
    /\ last.n < MaxCalls
    /\ SetPage(toggleLoginMenuItem(Page))
    /\ last' = Ran("toggle", last.n + 1)
    /\ threw' = FALSE
    /\ UNCHANGED <<text, reqs, clicks, overlapped, loaded, lastSuccess>>

ToggleNext == ToggleCall

SpecToggle == ToggleInit /\ [][ToggleNext]_vars

(***************************************************************************)
(* Shorthands of the properties.                                           *)
(***************************************************************************)
Token == ConfigGet(config, AuthKey)

LoggedInMenu == visible[LogoutItem] /\ ~visible[LoginItem]

LoggedOutMenu == visible[LoginItem] /\ ~visible[LogoutItem]

InFlight(i) == i \in DOMAIN reqs /\ reqs[i] = "inflight"

Completed(i) == i \in DOMAIN reqs /\ reqs[i] \in {"success", "error"}

AllDone == reqs # <<>> /\ \A i \in DOMAIN reqs : Completed(i)

\* This step is an error callback.
ErrorStep == \E i \in DOMAIN reqs : reqs[i] = "inflight" /\ reqs'[i] = "error"

\* The slots a field-error body names, by its own keys.
NamedSlots(b) ==
    [s \in Slots |->
        IF s = NonFieldSlot
        THEN IF "non_field_errors" \in OwnKeys(b) THEN Message("non_field_errors") ELSE ""
        ELSE IF \E k \in OwnKeys(b) \ {"non_field_errors"} : s = ".error-" \o k
             THEN Message(CHOOSE k \in OwnKeys(b) \ {"non_field_errors"} : s = ".error-" \o k)
             ELSE ""]

(***************************************************************************)
(* C1.  After a success callback whose body carries a token T, the store   *)
(* holds T under forever.authToken, the menu shows the logged-in state     *)
(* and the hash is "service", whatever the store, the menu and the hash    *)
(* were before.                                                            *)
(***************************************************************************)
C1_SuccessLogsIn ==
    (last.op = "success" /\ Truthy(last.token)) =>
        /\ Token = last.token
        /\ LoggedInMenu
        /\ hash = "service"

\* A success callback with token abc123 ran before the DOM-ready toggle.
C1_Witness ==
    /\ last.op = "success"
    /\ last.token = "abc123"
    /\ ~loaded
    /\ Token = "abc123"
    /\ LoggedInMenu
    /\ hash = "service"

(***************************************************************************)
(* C2.  A call of toggleLoginMenuItem is decided by the stored token: with *)
(* a token present it shows logout, hides login and leaves the hash; with  *)
(* none it shows login, hides logout and sets the hash to "login".  Either *)
(* way exactly one of the two items is visible afterwards.                 *)
(***************************************************************************)
C2_ToggleByToken ==
    [][ /\ Truthy(Token) => (LoggedInMenu' /\ hash' = hash)
        /\ ~Truthy(Token) => (LoggedOutMenu' /\ hash' = "login")
        /\ visible'[LoginItem] # visible'[LogoutItem]
        /\ config' = config ]_vars

\* One call made with no token stored, on a page that showed both items.
C2_Witness ==
    /\ last.op = "toggle"
    /\ last.n = 1
    /\ Token = ""
    /\ LoggedOutMenu
    /\ hash = "login"

(***************************************************************************)
(* C3.  After an error callback with field-error body P, whatever the      *)
(* slots showed before, the populated slots are exactly those P names.     *)
(***************************************************************************)
C3_ErrorSlotsExact ==
    (last.op = "error" /\ last.body.defined) => text = NamedSlots(last.body)

(***************************************************************************)
(* C4.  The error callback renders the value of no inherited key, whatever *)
(* the key's name.                                                         *)
(***************************************************************************)
C4_InheritedNotRendered ==
    last.op = "error" =>
        \A k \in last.body.inherited \ OwnKeys(last.body) :
            \A s \in Slots : text[s] # Polluted

(***************************************************************************)
(* C5.  toggleLoginMenuItem is idempotent: a second call in a row, the     *)
(* store unchanged, leaves the menu and the hash as the first call left    *)
(* them.                                                                   *)
(***************************************************************************)
C5_ToggleIdempotent ==
    [][ last.op = "toggle" => (visible' = visible /\ hash' = hash) ]_vars

\* Two calls in a row on a page whose first call changed menu and hash.
C5_Witness ==
    /\ last.op = "toggle"
    /\ last.n = 2
    /\ ~Truthy(Token)
    /\ LoggedOutMenu
    /\ hash = "login"

(***************************************************************************)
(* C6.  As claimed: once forever.authToken is present, it is present in    *)
(* every later state.                                                      *)
(***************************************************************************)
C6_NeverCleared == [][ Truthy(Token) => Truthy(Token') ]_vars

\* C6, amended: a present token stays present across every step except a
\* success callback whose body carries no token or an empty one.
C6_ClearedOnlyByTokenlessSuccess ==
    [][ (Truthy(Token) /\ ~Truthy(Token')) =>
            (last'.op = "success" /\ ~Truthy(last'.token)) ]_vars

\* A token stored by a success callback survived a later error callback.
C6_Witness ==
    /\ lastSuccess.fired
    /\ Truthy(lastSuccess.token)
    /\ last.op = "error"
    /\ Truthy(Token)

(***************************************************************************)
(* C7.  Submission is not guarded: every click sends one more request,     *)
(* also while others are in flight; a request completes only after a state *)
(* in which it was in flight, keeps the outcome of its one callback, and   *)
(* every request in flight eventually gets its callback.                   *)
(***************************************************************************)
C7_Unguarded ==
    /\ [](Len(reqs) = clicks)
    /\ []((clicks < MaxRequests) => ENABLED Submit)
    /\ [][ \A i \in DOMAIN reqs' :
              reqs'[i] # "inflight" =>
                  /\ i \in DOMAIN reqs
                  /\ reqs[i] = "inflight" \/ reqs[i] = reqs'[i] ]_vars
    /\ \A i \in 1..MaxRequests : InFlight(i) ~> Completed(i)

\* Two requests were in flight at once and the second sent completed first.
C7_Witness ==
    /\ overlapped
    /\ Len(reqs) = 2
    /\ reqs[1] = "inflight"
    /\ reqs[2] = "error"

(***************************************************************************)
(* C8.  After the DOM-ready toggle, in every state, the logout item is     *)
(* visible exactly when a token is stored and the login item exactly when  *)
(* none is.                                                                *)
(***************************************************************************)
C8_MenuReflectsToken ==
    loaded =>
        /\ visible[LogoutItem] <=> Truthy(Token)
        /\ visible[LoginItem] <=> ~Truthy(Token)

\* Loaded with no token, then logged in by a success callback.
C8_Witness ==
    /\ loaded
    /\ lastSuccess.fired
    /\ lastSuccess.loaded
    /\ Truthy(Token)
    /\ LoggedInMenu

(***************************************************************************)
(* C9.  An error callback leaves the stored token, the menu and the hash   *)
(* as they were and raises no error, whatever the body, a missing one      *)
(* included.                                                               *)
(***************************************************************************)
C9_ErrorOnlyTouchesErrors ==
    [][ ErrorStep =>
           /\ config' = config
           /\ visible' = visible
           /\ hash' = hash
           /\ ~threw' ]_vars

====
